---- MODULE Spec2Model ----
(***************************************************************************)
(* Model of the font management tool (src/main.py): a manifest of font     *)
(* records, a font directory tree, and the six menu operations.            *)
(*                                                                         *)
(* A path string is a record [pre, dir, stem, ext]: `pre` is "" or "./"    *)
(* (two spellings of the same file), `stem` is the sequence of             *)
(* dot-separated components of the file name before the suffix (pathlib's  *)
(* stem of f1/a.original.ttf is <<"a", "original">>), `ext` the suffix.    *)
(* File contents are sequences of bytes; the size of a file is the length  *)
(* of its content.  Sizes are scaled: SIZE_LIMIT stands for 24.5 MiB.      *)
(***************************************************************************)
EXTENDS Integers, Sequences, FiniteSets, TLC

VARIABLES manifestFile, disk, pc, renameReplaces, large_files, idx, results,
          still_large, disk0, lastOp, report, ops

vars == <<manifestFile, disk, pc, renameReplaces, large_files, idx, results,
          still_large, disk0, lastOp, report, ops>>

(***************************************************************************)
(* Bounds of the model.                                                    *)
(***************************************************************************)
MaxSize == 4

MaxStoredSize == 1

\* the longest manifest of the verification runs
MaxRecords == 2

\* the longest manifest of the duplicate-id runs
MaxIds == 4

\* the number of menu choices made in one session
MaxOps == 2

(***************************************************************************)
(* Program constants.                                                      *)
(***************************************************************************)
SIZE_LIMIT == 2

(***************************************************************************)
(* Paths.                                                                  *)
(***************************************************************************)
P(dir, stem, ext) == [pre |-> "", dir |-> dir, stem |-> stem, ext |-> ext]

Dotted(p) == [p EXCEPT !.pre = "./"]

\* os.path.join(FONTS_DIR, file) / Path(FONTS_DIR) / file: the file a path
\* string names; "./f1/a.ttf" and "f1/a.ttf" name the same file.
JoinFontsDir(file) == [file EXCEPT !.pre = ""]

\* str.lower() on the suffixes that occur in the model.
Lower(ext) ==
  CASE ext = ".TTF" -> ".ttf"
    [] ext = ".OTF" -> ".otf"
    [] ext = ".PNG" -> ".png"
    [] OTHER -> ext

IsFontName(p) == Lower(p.ext) \in {".ttf", ".otf"}

\* f"{file_path.stem}.subset{file_path.suffix}" in file_path.parent
SubsetPath(file_path) == [file_path EXCEPT !.stem = Append(@, "subset")]

\* a variant that names the backup <name>.bak
BackupPathBak(file_path) == [file_path EXCEPT !.ext = ".bak"]

\* f"{file_path.stem}.original{file_path.suffix}" in file_path.parent
BackupPath(file_path) == [file_path EXCEPT !.stem = Append(@, "original")]

\* os.path.join(os.path.dirname(font_file), "preview.png")
DefaultPreview(font_file) ==
  [pre |-> font_file.pre, dir |-> font_file.dir, stem |-> <<"preview">>,
   ext |-> ".png"]

(***************************************************************************)
(* The file system below FONTS_DIR: a function from the files that exist   *)
(* to their contents.                                                      *)
(***************************************************************************)
Exists(d, p) == p \in DOMAIN d

Size(d, p) == Len(d[p])

Remove(d, p) == [q \in DOMAIN d \ {p} |-> d[q]]

WriteFile(d, p, c) == [q \in DOMAIN d \cup {p} |-> IF q = p THEN c ELSE d[q]]

\* rename src to dst, src exists; dst is replaced when it exists
RenameOver(d, src, dst) ==
  [q \in (DOMAIN d \ {src}) \cup {dst} |-> IF q = dst THEN d[src] ELSE d[q]]

(***************************************************************************)
(* Records of the manifest: functions from the keys present to values.     *)
(***************************************************************************)
Has(font, key) == key \in DOMAIN font

Get(font, key, default) == IF Has(font, key) THEN font[key] ELSE default

SetKey(font, key, val) ==
  [k \in DOMAIN font \cup {key} |-> IF k = key THEN val ELSE font[k]]

Range(s) == {s[i] : i \in 1..Len(s)}

Range2(f) == {f[x] : x \in DOMAIN f}

RECURSIVE SetToSeq(_)
\* a fixed enumeration order of a finite set (the directory-walk order)
SetToSeq(S) ==
  IF S = {} THEN <<>>
  ELSE LET x == CHOOSE y \in S : TRUE IN <<x>> \o SetToSeq(S \ {x})

RECURSIVE Flatten(_)
Flatten(ss) == IF ss = <<>> THEN <<>> ELSE Head(ss) \o Flatten(Tail(ss))

\* lines 29-38
get_all_font_files(d) ==
  SelectSeq(SetToSeq(DOMAIN d), LAMBDA p : IsFontName(p))

\* lines 40-46
get_manifest_font_files(manifest) ==
  Flatten([i \in 1..Len(manifest) |->
             IF Has(manifest[i], "files") THEN manifest[i].files ELSE <<>>])

\* a variant that compares the files named rather than the strings
find_orphaned_normalised(manifest, d) ==
  LET manifest_files == get_manifest_font_files(manifest)
      all_files == get_all_font_files(d)
  IN SelectSeq(all_files, LAMBDA f : \A i \in 1..Len(manifest_files) :
                                        JoinFontsDir(manifest_files[i]) # f)

\* lines 48-55; `f not in manifest_files` is string equality
find_orphaned_font_files(manifest, d) ==
  LET manifest_files == get_manifest_font_files(manifest)
      all_files == get_all_font_files(d)
  IN SelectSeq(all_files, LAMBDA f : \A i \in 1..Len(manifest_files) :
                                        manifest_files[i] # f)

(***************************************************************************)
(* Console input: a sequence of characters.                                *)
(***************************************************************************)
IsSpace(ch) == ch \in {" ", "\t", "\n"}

RECURSIVE LStrip(_)
LStrip(s) == IF s # <<>> /\ IsSpace(Head(s)) THEN LStrip(Tail(s)) ELSE s

RECURSIVE RStrip(_)
RStrip(s) ==
  IF s # <<>> /\ IsSpace(s[Len(s)]) THEN RStrip(SubSeq(s, 1, Len(s) - 1))
  ELSE s

Strip(s) == RStrip(LStrip(s))

LowerChar(ch) ==
  CASE ch = "Y" -> "y"
    [] ch = "N" -> "n"
    [] ch = "E" -> "e"
    [] ch = "S" -> "s"
    [] OTHER -> ch

LowerSeq(s) == [i \in 1..Len(s) |-> LowerChar(s[i])]

\* a variant that accepts any answer starting with y
ConfirmedPrefix(input) ==
  LowerSeq(Strip(input)) # <<>> /\ Head(LowerSeq(Strip(input))) = "y"

\* input(...).strip().lower() == 'y'
Confirmed(input) == LowerSeq(Strip(input)) = <<"y">>

ConfirmInputs ==
  {<<"y">>, <<"Y">>, <<" ", "y", "\n">>, <<"n">>, <<"y", "e", "s">>}

(***************************************************************************)
(* The menu loop, lines 462-470: one more choice is read.                  *)
(***************************************************************************)
AtMenu ==
  /\ pc = "menu"
  /\ ops < MaxOps
  /\ ops' = ops + 1

(***************************************************************************)
(* What the last operation printed and asked (ghost copy of the console).  *)
(***************************************************************************)
EmptyReport ==
  [input |-> <<>>, asked |-> FALSE, orphans |-> <<>>, attempted |-> <<>>,
   failed |-> {}, missing_files |-> <<>>, missing_previews |-> <<>>,
   duplicate_ids |-> {}, clean |-> FALSE, steps |-> <<>>, saved |-> FALSE]

\* the local variables of reduce_large_font_files, which do not outlive it
NoReduceLocals ==
  /\ large_files' = <<>>
  /\ idx' = 0
  /\ results' = <<>>
  /\ still_large' = <<>>
  /\ disk0' = <<>>

(***************************************************************************)
(* Option 1: delete_orphaned_files, lines 57-82.                           *)
(***************************************************************************)
RECURSIVE RemoveLoopAbort(_, _, _)
\* a variant in which the first failing os.remove ends the loop
RemoveLoopAbort(files, d, failing) ==
  IF files = <<>> \/ Head(files) \in failing
  THEN [disk |-> d, attempted |-> IF files = <<>> THEN <<>> ELSE <<Head(files)>>]
  ELSE LET file == Head(files)
           full_path == JoinFontsDir(file)
           d1 == IF ~Exists(d, full_path) THEN d ELSE Remove(d, full_path)
           rest == RemoveLoopAbort(Tail(files), d1, failing)
       IN [disk |-> rest.disk, attempted |-> <<file>> \o rest.attempted]

RECURSIVE RemoveLoop(_, _, _)
\* lines 74-80 (and 283-290): os.remove on every file in turn; `failing` are
\* the files on which os.remove raises, which is caught per file.
RemoveLoop(files, d, failing) ==
  IF files = <<>> THEN [disk |-> d, attempted |-> <<>>]
  ELSE LET file == Head(files)
           full_path == JoinFontsDir(file)
           d1 == IF file \in failing \/ ~Exists(d, full_path) THEN d
                 ELSE Remove(d, full_path)
           rest == RemoveLoop(Tail(files), d1, failing)
       IN [disk |-> rest.disk, attempted |-> <<file>> \o rest.attempted]

delete_orphaned_files ==
  /\ AtMenu
  /\ LET orphaned_files == find_orphaned_font_files(manifestFile, disk) IN
       IF orphaned_files = <<>>
       THEN /\ disk' = disk
            /\ report' = EmptyReport
       ELSE \E input \in ConfirmInputs :
              IF ~Confirmed(input)
              THEN /\ disk' = disk
                   /\ report' = [EmptyReport EXCEPT !.input = input,
                                                    !.asked = TRUE,
                                                    !.orphans = orphaned_files]
              ELSE \E failing \in SUBSET Range(orphaned_files) :
                     LET r == RemoveLoop(orphaned_files, disk, failing) IN
                       /\ disk' = r.disk
                       /\ report' = [EmptyReport EXCEPT
                                       !.input = input,
                                       !.asked = TRUE,
                                       !.orphans = orphaned_files,
                                       !.attempted = r.attempted,
                                       !.failed = failing]
  /\ lastOp' = "delete_orphaned_files"
  /\ NoReduceLocals
  /\ UNCHANGED <<manifestFile, pc, renameReplaces>>

(***************************************************************************)
(* Option 2: create_font_previews, lines 147-211.                          *)
(***************************************************************************)
\* lines 84-145: the image drawn with the font; which image is not modelled
PngOf(fontBytes) == <<137>>

\* lines 189-211; `renders` tells whether create_preview_image succeeds
process_single_font(font_data, d, renders) ==
  IF ~Has(font_data, "id") \/ ~Has(font_data, "files")
     \/ font_data.files = <<>>
  THEN d
  ELSE LET font_file == font_data.files[1]
           preview_path ==
             IF Has(font_data, "preview")
             THEN JoinFontsDir(font_data.preview)
             ELSE JoinFontsDir(DefaultPreview(font_file))
           font_path == JoinFontsDir(font_file)
       IN IF Exists(d, font_path) /\ renders
          THEN WriteFile(d, preview_path, PngOf(d[font_path]))
          ELSE d

RECURSIVE PreviewLoop(_, _, _, _, _)
\* lines 176-177 (missingOnly false) and 181-184 (missingOnly true)
PreviewLoop(manifest, i, d, ok, missingOnly) ==
  IF i > Len(manifest) THEN d
  ELSE LET font == manifest[i]
           skip == /\ missingOnly
                   /\ Has(font, "preview")
                   /\ Exists(d, JoinFontsDir(font.preview))
           d1 == IF skip THEN d
                 ELSE process_single_font(font, d, i \in ok)
       IN PreviewLoop(manifest, i + 1, d1, ok, missingOnly)

\* lines 158-187: the tree after the chosen batch mode
PreviewsDisk(manifest, d, choice, number, ok) ==
  CASE choice = "1" ->
         IF 0 <= number - 1 /\ number - 1 < Len(manifest)
         THEN process_single_font(manifest[number], d, number \in ok)
         ELSE d
    [] choice = "2" -> PreviewLoop(manifest, 1, d, ok, FALSE)
    [] choice = "3" -> PreviewLoop(manifest, 1, d, ok, TRUE)
    [] OTHER -> d

\* the inputs of one run: the sub-menu choice, the font number typed (read
\* for choice 1 only) and the records whose rendering succeeds
PreviewInputs(manifest) ==
  { in \in [choice : {"1", "2", "3", "x"},
            number : 0..(Len(manifest) + 1),
            ok : SUBSET (1..Len(manifest))] :
      /\ in.choice # "1" => in.number = 0
      /\ in.choice = "1" => in.ok \subseteq {in.number}
      /\ in.choice = "x" => in.ok = {} }

\* a variant that stores the default preview path in the manifest file
create_font_previews_saving ==
  /\ AtMenu
  /\ \E in \in PreviewInputs(manifestFile) :
       /\ disk' = PreviewsDisk(manifestFile, disk, in.choice, in.number, in.ok)
       /\ manifestFile' =
            [i \in 1..Len(manifestFile) |->
               LET font == manifestFile[i] IN
                 IF Has(font, "files") /\ font.files # <<>>
                    /\ ~Has(font, "preview")
                    /\ Exists(disk', JoinFontsDir(DefaultPreview(font.files[1])))
                 THEN SetKey(font, "preview", DefaultPreview(font.files[1]))
                 ELSE font]
  /\ lastOp' = "create_font_previews"
  /\ report' = EmptyReport
  /\ NoReduceLocals
  /\ UNCHANGED <<pc, renameReplaces>>

create_font_previews ==
  /\ AtMenu
  /\ \E in \in PreviewInputs(manifestFile) :
       disk' = PreviewsDisk(manifestFile, disk, in.choice, in.number, in.ok)
  /\ lastOp' = "create_font_previews"
  /\ report' = EmptyReport
  /\ NoReduceLocals
  /\ UNCHANGED <<manifestFile, pc, renameReplaces>>

(***************************************************************************)
(* Option 3: verify_font_files, lines 213-294.                             *)
(***************************************************************************)
RECURSIVE DuplicateLoopAdjacent(_, _, _, _)
\* a variant that remembers the previous id only
DuplicateLoopAdjacent(manifest, i, seen_ids, duplicate_ids) ==
  IF i > Len(manifest) THEN duplicate_ids
  ELSE LET font == manifest[i] IN
         IF Has(font, "id")
         THEN DuplicateLoopAdjacent(manifest, i + 1, {font.id},
                                    IF font.id \in seen_ids
                                    THEN duplicate_ids \cup {font.id}
                                    ELSE duplicate_ids)
         ELSE DuplicateLoopAdjacent(manifest, i + 1, seen_ids, duplicate_ids)

RECURSIVE DuplicateLoop(_, _, _, _)
\* lines 226-231: seen_ids / duplicate_ids over the records in order
DuplicateLoop(manifest, i, seen_ids, duplicate_ids) ==
  IF i > Len(manifest) THEN duplicate_ids
  ELSE LET font == manifest[i] IN
         IF Has(font, "id")
         THEN DuplicateLoop(manifest, i + 1, seen_ids \cup {font.id},
                            IF font.id \in seen_ids
                            THEN duplicate_ids \cup {font.id}
                            ELSE duplicate_ids)
         ELSE DuplicateLoop(manifest, i + 1, seen_ids, duplicate_ids)

\* lines 236-240 for one record
MissingFilesOf(font, d) ==
  IF Has(font, "files")
  THEN LET absent == SelectSeq(font.files,
                               LAMBDA file : ~Exists(d, JoinFontsDir(file)))
       IN [j \in 1..Len(absent) |-> <<Get(font, "id", "unknown"), absent[j]>>]
  ELSE <<>>

\* a variant that does not flag a record without a `preview` key
MissingPreviewDeclaredOnly(font, d) ==
  IF Has(font, "preview") /\ ~Exists(d, JoinFontsDir(font.preview))
  THEN << <<Get(font, "id", "unknown"), font.preview>> >>
  ELSE <<>>

\* lines 245-250 for one record
MissingPreviewOf(font, d) ==
  IF Has(font, "preview")
  THEN IF ~Exists(d, JoinFontsDir(font.preview))
       THEN << <<Get(font, "id", "unknown"), font.preview>> >>
       ELSE <<>>
  ELSE << <<Get(font, "id", "unknown"), "No preview specified">> >>

verify_font_files ==
  /\ AtMenu
  /\ LET manifest == manifestFile
         missing_files ==
           Flatten([i \in 1..Len(manifest) |-> MissingFilesOf(manifest[i], disk)])
         missing_previews ==
           Flatten([i \in 1..Len(manifest) |->
                      MissingPreviewOf(manifest[i], disk)])
         duplicate_ids == DuplicateLoop(manifest, 1, {}, {})
         orphaned_files == find_orphaned_font_files(manifest, disk)
         clean == /\ missing_files = <<>>
                  /\ missing_previews = <<>>
                  /\ duplicate_ids = {}
                  /\ orphaned_files = <<>>
         base == [EmptyReport EXCEPT !.missing_files = missing_files,
                                     !.missing_previews = missing_previews,
                                     !.duplicate_ids = duplicate_ids,
                                     !.orphans = orphaned_files,
                                     !.clean = clean]
     IN IF orphaned_files = <<>>
        THEN /\ disk' = disk
             /\ report' = base
        ELSE \E input \in ConfirmInputs :
               IF Confirmed(input)
               THEN \E failing \in SUBSET Range(orphaned_files) :
                      LET r == RemoveLoop(orphaned_files, disk, failing) IN
                        /\ disk' = r.disk
                        /\ report' = [base EXCEPT !.input = input,
                                                  !.asked = TRUE,
                                                  !.attempted = r.attempted,
                                                  !.failed = failing]
               ELSE /\ disk' = disk
                    /\ report' = [base EXCEPT !.input = input, !.asked = TRUE]
  /\ lastOp' = "verify_font_files"
  /\ NoReduceLocals
  /\ UNCHANGED <<manifestFile, pc, renameReplaces>>

(***************************************************************************)
(* Option 4: reduce_large_font_files, lines 295-420.  The loop over the    *)
(* candidates (lines 358-403) takes one step per candidate; nothing else   *)
(* runs in between.                                                        *)
(***************************************************************************)
\* lines 325-329
AllFontFilesOf(font) ==
  IF Has(font, "files") /\ font.files # <<>>
  THEN [j \in 1..Len(font.files) |->
          [font_id |-> Get(font, "id", "unknown"), file |-> font.files[j]]]
  ELSE <<>>

\* lines 331-338
LargeFiles(manifest, d) ==
  LET all_font_files ==
        Flatten([i \in 1..Len(manifest) |-> AllFontFilesOf(manifest[i])])
      large == SelectSeq(all_font_files,
                 LAMBDA e : /\ Exists(d, JoinFontsDir(e.file))
                            /\ Size(d, JoinFontsDir(e.file)) > SIZE_LIMIT)
  IN [j \in 1..Len(large) |->
        [font_id |-> large[j].font_id, file |-> large[j].file,
         size |-> Size(d, JoinFontsDir(large[j].file))]]

\* what pyftsubset can write: a small font, one just over the limit, or one
\* of the largest size
ToolBytes(n) == [i \in 1..n |-> 6 + i]

\* a run of pyftsubset: exits non-zero, exits zero without writing the output
\* file, or exits zero having written `bytes` to it
ToolOutcomes ==
  {[status |-> "fail", bytes |-> <<>>], [status |-> "nooutput", bytes |-> <<>>]}
  \cup {[status |-> "ok", bytes |-> ToolBytes(n)] :
          n \in {1, SIZE_LIMIT + 1, MaxSize}}

reduce_begin ==
  /\ AtMenu
  /\ lastOp' = "reduce_large_font_files"
  /\ \E env \in {"ok", "no_subset_file", "no_pyftsubset"} :
       LET large == LargeFiles(manifestFile, disk) IN
         IF env # "ok" \/ large = <<>>
         THEN /\ NoReduceLocals
              /\ report' = EmptyReport
              /\ pc' = pc
         ELSE \E input \in ConfirmInputs :
                /\ report' = [EmptyReport EXCEPT !.input = input,
                                                 !.asked = TRUE]
                /\ IF ~Confirmed(input)
                   THEN /\ NoReduceLocals
                        /\ pc' = pc
                   ELSE /\ large_files' = large
                        /\ idx' = 1
                        /\ results' = <<>>
                        /\ still_large' = <<>>
                        /\ disk0' = disk
                        /\ pc' = "reduce"
  /\ UNCHANGED <<manifestFile, disk, renameReplaces>>

\* a variant that also swaps when the output is as large as the original
SwapOrDiscardLe(d, file_path, output_file, original_size, replaces) ==
  LET new_size == Size(d, output_file)
      backup_file == BackupPath(file_path)
  IN IF new_size <= original_size
     THEN IF Exists(d, backup_file) /\ ~replaces
          THEN [disk |-> d, swapped |-> FALSE]
          ELSE [disk |-> RenameOver(RenameOver(d, file_path, backup_file),
                                    output_file, file_path),
                swapped |-> TRUE]
     ELSE [disk |-> Remove(d, output_file), swapped |-> FALSE]

\* lines 383-398 once the output file exists: the disk after the comparison
\* and swap.  Path.rename onto an existing file replaces it on POSIX and
\* raises FileExistsError on Windows (caught at line 402).
SwapOrDiscard(d, file_path, output_file, original_size, replaces) ==
  LET new_size == Size(d, output_file)
      backup_file == BackupPath(file_path)
  IN IF new_size < original_size
     THEN IF Exists(d, backup_file) /\ ~replaces
          THEN [disk |-> d, swapped |-> FALSE]
          ELSE [disk |-> RenameOver(RenameOver(d, file_path, backup_file),
                                    output_file, file_path),
                swapped |-> TRUE]
     ELSE [disk |-> Remove(d, output_file), swapped |-> FALSE]

reduce_step ==
  /\ pc = "reduce"
  /\ idx <= Len(large_files)
  /\ LET font_id == large_files[idx].font_id
         file == large_files[idx].file
         original_size == large_files[idx].size
         file_path == JoinFontsDir(file)
         output_file == SubsetPath(file_path)
     IN \E tool \in ToolOutcomes :
          \* pyftsubset exits non-zero when its input does not exist
          /\ ~Exists(disk, file_path) => tool.status = "fail"
          /\ LET d1 == IF tool.status = "ok"
                       THEN WriteFile(disk, output_file, tool.bytes)
                       ELSE disk
                 r == IF tool.status # "fail" /\ Exists(d1, output_file)
                      THEN SwapOrDiscard(d1, file_path, output_file,
                                         original_size, renameReplaces)
                      ELSE [disk |-> d1, swapped |-> FALSE]
                 new_size == Size(d1, output_file)
             IN /\ disk' = r.disk
                /\ results' =
                     IF r.swapped
                     THEN Append(results,
                                 [font_id |-> font_id, file |-> file,
                                  original |-> original_size,
                                  new |-> new_size])
                     ELSE results
                /\ still_large' =
                     IF r.swapped /\ new_size > SIZE_LIMIT
                     THEN Append(still_large,
                                 [font_id |-> font_id, file |-> file,
                                  size |-> new_size])
                     ELSE still_large
                /\ report' = [report EXCEPT !.steps =
                                Append(@, [file |-> file, tool |-> tool,
                                           swapped |-> r.swapped])]
  /\ idx' = idx + 1
  /\ UNCHANGED <<manifestFile, pc, renameReplaces, large_files, disk0, lastOp,
                 ops>>

\* lines 405-420: the summary, then back to the menu
reduce_end ==
  /\ pc = "reduce"
  /\ idx > Len(large_files)
  /\ pc' = "menu"
  /\ UNCHANGED <<manifestFile, disk, renameReplaces, large_files, idx, results,
                 still_large, disk0, lastOp, report, ops>>

(***************************************************************************)
(* Option 5: update_file_size_info, lines 422-458.                         *)
(***************************************************************************)
RECURSIVE TotalSize(_, _)
\* lines 431-436
TotalSize(files, d) ==
  IF files = <<>> THEN 0
  ELSE LET file_path == JoinFontsDir(Head(files)) IN
         (IF Exists(d, file_path) THEN Size(d, file_path) ELSE 0)
         + TotalSize(Tail(files), d)

\* a variant that leaves `size` alone when no declared file exists
WithSizeIfFound(font, d) ==
  IF Has(font, "files") /\ font.files # <<>> /\ TotalSize(font.files, d) > 0
  THEN SetKey(font, "size", TotalSize(font.files, d))
  ELSE font

\* lines 430-440 for one record
WithSize(font, d) ==
  IF Has(font, "files") /\ font.files # <<>>
  THEN SetKey(font, "size", TotalSize(font.files, d))
  ELSE font

update_file_size_info ==
  /\ AtMenu
  /\ manifestFile' = [i \in 1..Len(manifestFile) |->
                        WithSize(manifestFile[i], disk)]
  /\ lastOp' = "update_file_size_info"
  /\ report' = [EmptyReport EXCEPT !.saved = TRUE]
  /\ NoReduceLocals
  /\ UNCHANGED <<disk, pc, renameReplaces>>

(***************************************************************************)
(* Option 6 and any other choice, lines 482-486.                           *)
(***************************************************************************)
exit_menu ==
  /\ AtMenu
  /\ pc' = "exited"
  /\ lastOp' = "exit"
  /\ report' = EmptyReport
  /\ NoReduceLocals
  /\ UNCHANGED <<manifestFile, disk, renameReplaces>>

invalid_option ==
  /\ AtMenu
  /\ lastOp' = "invalid"
  /\ report' = EmptyReport
  /\ NoReduceLocals
  /\ UNCHANGED <<manifestFile, disk, pc, renameReplaces>>

Next ==
  \/ delete_orphaned_files
  \/ create_font_previews
  \/ verify_font_files
  \/ reduce_begin
  \/ reduce_step
  \/ reduce_end
  \/ update_file_size_info
  \/ exit_menu
  \/ invalid_option

(***************************************************************************)
(* Initial states: a manifest file and a font tree.                        *)
(***************************************************************************)
A == P("f1", <<"a">>, ".ttf")

PngA == P("f1", <<"preview">>, ".png")

B == P("f2", <<"b">>, ".ttf")

CU == P("f2", <<"c">>, ".OTF")

FontBytes(n) == [i \in 1..n |-> i]

OldBytes(n) == [i \in 1..n |-> 20 + i]

OtherBytes(n) == [i \in 1..n |-> 10 + i]

MkFont(keys, id, files, preview, size) ==
  [k \in keys |-> CASE k = "id" -> id
                    [] k = "files" -> files
                    [] k = "preview" -> preview
                    [] k = "size" -> size]

SeqsUpTo(S, n) == UNION {[1..k -> S] : k \in 0..n}

\* a tree holding file p with content c[p] for the p with c[p] # <<>>
MkDisk(c) == [p \in {q \in DOMAIN c : c[q] # <<>>} |-> c[p]]

MainManifests ==
  { << MkFont({"id", "files"}, "f1", <<A>>, A, 0) >>,
    << MkFont({"id", "files"}, "f1", <<A, A>>, A, 0) >>,
    << MkFont({"id", "files", "size"}, "f1", <<A>>, A, MaxStoredSize),
       MkFont({"id", "files", "preview"}, "f2", <<Dotted(A), B>>, PngA, 0) >>,
    << MkFont({"id", "files"}, "f1", <<A, BackupPath(A)>>, A, 0),
       MkFont({"files", "preview"}, "", <<>>, PngA, 0) >>,
    << MkFont({"id", "files", "preview"}, "f2", <<B>>, PngA, 0),
       MkFont({"id", "size"}, "f1", <<>>, A, MaxStoredSize) >> }

\* the contents each file of the initial tree may have; <<>> is "absent"
MainOptions ==
  (A :> {FontBytes(SIZE_LIMIT + 1), FontBytes(MaxSize)})
  @@ (B :> {<<>>, OtherBytes(SIZE_LIMIT + 1)})
  @@ (BackupPath(A) :> {<<>>, OldBytes(SIZE_LIMIT)})

Trees(options) ==
  { MkDisk(c) : c \in { f \in [DOMAIN options -> UNION Range2(options)] :
                          \A p \in DOMAIN options : f[p] \in options[p] } }

MainDisks == Trees(MainOptions)

\* the session has just started: the menu is shown, nothing has run yet
Fresh ==
  /\ pc = "menu"
  /\ large_files = <<>>
  /\ idx = 0
  /\ results = <<>>
  /\ still_large = <<>>
  /\ disk0 = <<>>
  /\ lastOp = "start"
  /\ ops = 0
  /\ report = EmptyReport

Init ==
  /\ manifestFile \in MainManifests
  /\ disk \in MainDisks
  /\ renameReplaces \in BOOLEAN
  /\ Fresh

Spec == Init /\ [][Next]_vars

(***************************************************************************)
(* Verification runs: manifests built from records that differ in which    *)
(* keys they have and in how they spell their paths, over small trees;     *)
(* one operation is applied to each (it is the session's last choice).     *)
(***************************************************************************)
CL == P("f2", <<"c">>, ".otf")

VerifyRecords ==
  { MkFont({"id", "files"}, "f1", <<A>>, A, 0),
    MkFont({"id", "files", "preview"}, "f1", <<A, A>>, PngA, 0),
    MkFont({"id", "files", "size"}, "f2", <<Dotted(A), B>>, A, MaxStoredSize),
    MkFont({"files", "preview"}, "", <<CL>>, PngA, 0),
    MkFont({"id", "size"}, "f2", <<>>, A, MaxStoredSize),
    MkFont({"id", "files", "preview"}, "f3", <<>>, PngA, 0) }

VerifyOptions ==
  (A :> {<<>>, FontBytes(1)})
  @@ (B :> {<<>>, OtherBytes(SIZE_LIMIT + 1)})
  @@ (CU :> {<<>>, FontBytes(1)})
  @@ (PngA :> {<<>>, <<137>>})

InitVerify ==
  /\ manifestFile \in SeqsUpTo(VerifyRecords, MaxRecords)
  /\ disk \in Trees(VerifyOptions)
  /\ renameReplaces = TRUE
  /\ pc = "menu"
  /\ large_files = <<>>
  /\ idx = 0
  /\ results = <<>>
  /\ still_large = <<>>
  /\ disk0 = <<>>
  /\ lastOp = "start"
  /\ ops = MaxOps - 1
  /\ report = EmptyReport

NextVerify ==
  \/ delete_orphaned_files
  \/ create_font_previews
  \/ verify_font_files
  \/ update_file_size_info

SpecVerify == InitVerify /\ [][NextVerify]_vars

(***************************************************************************)
(* Duplicate-id runs: manifests of complete records that differ in `id`    *)
(* only (or lack it), over a tree that holds every declared file.          *)
(***************************************************************************)
IdRecords ==
  { MkFont({"id", "files", "preview"}, id, <<A>>, PngA, 0) :
      id \in {"a", "b", "c"} }
  \cup { MkFont({"files", "preview"}, "", <<A>>, PngA, 0) }

InitIds ==
  /\ manifestFile \in SeqsUpTo(IdRecords, MaxIds)
  /\ disk = (A :> FontBytes(1)) @@ (PngA :> <<137>>)
  /\ renameReplaces = TRUE
  /\ Fresh

NextIds == verify_font_files

SpecIds == InitIds /\ [][NextIds]_vars

(***************************************************************************)
(* Vocabulary of the properties.                                           *)
(***************************************************************************)
\* the answers of ConfirmInputs that read `y` once stripped and lower-cased
Accepted == {<<"y">>, <<"Y">>, <<" ", "y", "\n">>}

\* the path strings declared by the records that have a `files` key
DeclaredStrings(m) ==
  UNION {Range(m[i].files) : i \in {k \in 1..Len(m) : "files" \in DOMAIN m[k]}}

\* the files of the tree with a font suffix in either case
FontsOnDisk(d) == {p \in DOMAIN d : p.ext \in {".ttf", ".otf", ".TTF", ".OTF"}}

DeleteOps == {"delete_orphaned_files", "verify_font_files"}

ConfirmedDeletion(op, rep) ==
  op \in DeleteOps /\ rep.asked /\ rep.input \in Accepted

\* reduce_large_font_files has run its loop to the end
ReduceFinished ==
  pc = "menu" /\ lastOp = "reduce_large_font_files" /\ large_files # <<>>

IdList(m) == [i \in 1..Len(m) |-> IF "id" \in DOMAIN m[i] THEN m[i].id ELSE ""]

Occurrences(m, x) ==
  Cardinality({i \in 1..Len(m) : "id" \in DOMAIN m[i] /\ m[i].id = x})

ExistingSize(d, file) ==
  IF JoinFontsDir(file) \in DOMAIN d THEN Len(d[JoinFontsDir(file)]) ELSE 0

RECURSIVE SumFirst(_, _, _)
SumFirst(files, n, d) ==
  IF n = 0 THEN 0 ELSE SumFirst(files, n - 1, d) + ExistingSize(d, files[n])

CleanTree(m, d) ==
  /\ \A i, j \in 1..Len(m) :
       (i < j /\ "id" \in DOMAIN m[i] /\ "id" \in DOMAIN m[j]) => m[i].id # m[j].id
  /\ \A f \in DeclaredStrings(m) : JoinFontsDir(f) \in DOMAIN d
  /\ \A i \in 1..Len(m) :
       "preview" \in DOMAIN m[i] /\ JoinFontsDir(m[i].preview) \in DOMAIN d
  /\ FontsOnDisk(d) \subseteq DeclaredStrings(m)

(***************************************************************************)
(* C1.  find_orphaned_font_files returns, each once, exactly the font      *)
(* files of the tree whose relative path is not, as a string, one of the   *)
(* strings declared in a `files` list; the manifest [{id f1, files         *)
(* [f1/a.ttf]}] over a tree holding f1/a.ttf and f2/b.ttf gives            *)
(* [f2/b.ttf].                                                             *)
(***************************************************************************)
C1_OrphansAreSetDifference ==
  LET found == find_orphaned_font_files(manifestFile, disk) IN
    /\ Range(found) = FontsOnDisk(disk) \ DeclaredStrings(manifestFile)
    /\ Len(found) = Cardinality(Range(found))
    /\ (/\ manifestFile = << MkFont({"id", "files"}, "f1", <<A>>, A, 0) >>
        /\ FontsOnDisk(disk) = {A, B})
       => found = <<B>>

\* a file declared under another spelling has been reported as an orphan
C1_Witness ==
  /\ lastOp = "verify_font_files"
  /\ A \in Range(report.orphans)
  /\ Dotted(A) \in DeclaredStrings(manifestFile)

(***************************************************************************)
(* C2.  When reduce_large_font_files has finished, every candidate whose   *)
(* subsetted output was strictly smaller has the smaller subsetted         *)
(* content at its original path and its pre-operation bytes in the         *)
(* `.original` sibling.  Stated for a platform on which Path.rename        *)
(* replaces an existing target (POSIX); where it raises instead (Windows)  *)
(* a pre-existing `.original` sibling alone makes the swap fail.           *)
(***************************************************************************)
C2_BackupKeepsOriginal ==
  (ReduceFinished /\ renameReplaces) =>
    \A i \in 1..Len(report.steps) :
      LET st == report.steps[i]
          fp == JoinFontsDir(st.file)
      IN (st.tool.status = "ok" /\ Len(st.tool.bytes) < Len(disk0[fp])) =>
           /\ fp \in DOMAIN disk
           /\ Len(disk[fp]) < Len(disk0[fp])
           /\ BackupPath(fp) \in DOMAIN disk
           /\ disk[BackupPath(fp)] = disk0[fp]

(***************************************************************************)
(* C3 as written.  A destructive action (deleting orphans from option 1    *)
(* or from verify, starting the subset-and-replace loop) happens only      *)
(* when the answer typed is exactly `y`.                                   *)
(***************************************************************************)
C3_OnlyLiteralY ==
  [][((lastOp' \in DeleteOps /\ disk' # disk) \/ (pc = "menu" /\ pc' = "reduce"))
       => report'.input = <<"y">>]_vars

(***************************************************************************)
(* C3 as amended.  A destructive action happens only when the answer       *)
(* typed reads `y` once surrounding whitespace is stripped and it is       *)
(* lower-cased (`Y` and ` y ` confirm too); after any other answer the     *)
(* operation cancels and the tree is left as it was; the subset-and-       *)
(* replace loop changes the tree only under such an answer.                *)
(***************************************************************************)
C3_OnlyNormalisedY ==
  [][/\ ((lastOp' \in DeleteOps /\ disk' # disk) \/ (pc = "menu" /\ pc' = "reduce"))
          => report'.input \in Accepted
     /\ (pc = "menu" /\ report'.asked /\ report'.input \notin Accepted)
          => (disk' = disk /\ pc' = "menu")
     /\ (pc = "reduce" /\ disk' # disk) => report.input \in Accepted]_vars

\* orphans have been deleted after the answer `Y`
C3_Witness ==
  /\ lastOp = "delete_orphaned_files"
  /\ report.input = <<"Y">>
  /\ report.attempted # <<>>
  /\ \E f \in Range(report.orphans) : f \notin DOMAIN disk

C6_DeletionBatchContinues ==
  ConfirmedDeletion(lastOp, report) =>
    /\ report.attempted = report.orphans
    /\ \A f \in Range(report.orphans) \ report.failed :
         /\ f \notin DOMAIN disk
         /\ f \notin Range(find_orphaned_font_files(manifestFile, disk))
    /\ Range(find_orphaned_font_files(manifestFile, disk)) \cap Range(report.orphans)
         \subseteq report.failed

\* the removal of one orphan failed and a later orphan was removed
C6_Witness ==
  /\ ConfirmedDeletion(lastOp, report)
  /\ \E i, j \in 1..Len(report.orphans) :
       /\ i < j
       /\ report.orphans[i] \in report.failed
       /\ report.orphans[i] \in DOMAIN disk
       /\ report.orphans[j] \notin report.failed
       /\ report.orphans[j] \notin DOMAIN disk

(***************************************************************************)
(* C7.  verify_font_files reports as duplicate exactly the ids that two    *)
(* or more records carry, each once; records without `id` add nothing;     *)
(* ids [a, b, a, c] give {a}.                                              *)
(***************************************************************************)
C7_DuplicateIds ==
  lastOp = "verify_font_files" =>
    /\ report.duplicate_ids =
         {x \in Range(IdList(manifestFile)) \ {""} : Occurrences(manifestFile, x) >= 2}
    /\ IdList(manifestFile) = <<"a", "b", "a", "c">> => report.duplicate_ids = {"a"}

\* verify has run on ids [a, b, a, c]
C7_Witness ==
  /\ lastOp = "verify_font_files"
  /\ IdList(manifestFile) = <<"a", "b", "a", "c">>
  /\ report.duplicate_ids = {"a"}

(***************************************************************************)
(* C8.  verify_font_files reports the fully-clean state exactly when no    *)
(* id occurs twice, every declared file exists, every record has a         *)
(* `preview` whose file exists, and no font file of the tree is            *)
(* undeclared; in that case it asks nothing and leaves the tree as it was. *)
(***************************************************************************)
C8_CleanReport ==
  [][lastOp' = "verify_font_files" =>
       /\ report'.clean <=> CleanTree(manifestFile, disk)
       /\ report'.clean => (~report'.asked /\ disk' = disk)]_vars

\* verify has reported a non-empty manifest clean
C8_Witness ==
  /\ lastOp = "verify_font_files"
  /\ report.clean
  /\ manifestFile # <<>>
  /\ A \in DOMAIN disk

(***************************************************************************)
(* C9.  Whatever the sequence of menu operations, a step that writes the   *)
(* manifest file, or leaves it with another content, is the size update.   *)
(***************************************************************************)
C9_OnlySizeUpdateWrites ==
  [][(manifestFile' # manifestFile \/ report'.saved)
       => lastOp' = "update_file_size_info"]_vars

\* a preview has been generated at the default path for a record without a
\* `preview` key, which the manifest still lacks
C9_Witness ==
  /\ lastOp = "create_font_previews"
  /\ manifestFile # <<>>
  /\ "preview" \notin DOMAIN manifestFile[1]
  /\ "files" \in DOMAIN manifestFile[1]
  /\ manifestFile[1].files # <<>>
  /\ JoinFontsDir(DefaultPreview(manifestFile[1].files[1])) \in DOMAIN disk

(***************************************************************************)
(* C10 as written.  After a subsetting run that swapped a file, the next   *)
(* orphan scan (option 1 or verify) lists the file's `.original` backup,   *)
(* and a confirmed deletion removes it, after which no file of the tree    *)
(* holds the pre-subsetting bytes.                                         *)
(***************************************************************************)
C10_BackupIsDeletedAsOrphan ==
  [][(ReduceFinished /\ lastOp' \in DeleteOps) =>
       \A i \in 1..Len(results) :
         LET fp == JoinFontsDir(results[i].file)
             bk == BackupPath(fp)
         IN /\ bk \in Range(report'.orphans)
            /\ ConfirmedDeletion(lastOp', report') =>
                 /\ bk \notin DOMAIN disk'
                 /\ \A q \in DOMAIN disk' : disk'[q] # disk0[fp]]_vars

(***************************************************************************)
(* C10 as amended.  After a subsetting run that swapped a file, the next   *)
(* orphan scan lists the file's `.original` backup unless the manifest     *)
(* itself declares that path, and a confirmed deletion removes it unless   *)
(* os.remove fails on it, after which no file of the tree holds the        *)
(* pre-subsetting bytes.                                                   *)
(***************************************************************************)
C10_UndeclaredBackupIsDeletedAsOrphan ==
  [][(ReduceFinished /\ lastOp' \in DeleteOps) =>
       \A i \in 1..Len(results) :
         LET fp == JoinFontsDir(results[i].file)
             bk == BackupPath(fp)
         IN bk \notin DeclaredStrings(manifestFile) =>
              /\ bk \in Range(report'.orphans)
              /\ (ConfirmedDeletion(lastOp', report') /\ bk \notin report'.failed) =>
                   /\ bk \notin DOMAIN disk'
                   /\ \A q \in DOMAIN disk' : disk'[q] # disk0[fp]]_vars

\* after a swap of f1/a.ttf, its backup was listed as an orphan and deleted:
\* f1/a.ttf holds a subsetted font and the original bytes are gone
C10_Witness ==
  /\ ConfirmedDeletion(lastOp, report)
  /\ BackupPath(A) \in Range(report.orphans)
  /\ BackupPath(A) \notin DOMAIN disk
  /\ A \in DOMAIN disk
  /\ \E n \in 1..MaxSize : disk[A] = ToolBytes(n)

====
